---- MODULE Spec2Model ----
(***************************************************************************)
(* Model of trans.py: a command-line tool that records word translations   *)
(* in per-direction text stores and counts freshly added words in          *)
(* per-language usage files.                                               *)
(*                                                                         *)
(* Text is modelled character by character: a string is a sequence of      *)
(* one-character strings, a store file is the sequence of characters it    *)
(* holds.  Lines, fields and trimmed fields are computed from that text    *)
(* the way the code computes them (readlines, split(','), strip).          *)
(***************************************************************************)
EXTENDS Integers, Sequences, FiniteSets, TLC

\* ---------------------------------------------------------------- bounds
\* Number of command invocations explored.
MaxCalls == 2

\* ---------------------------------------------------------------- inputs
NL == "\n"
\* Characters removed by str.strip() among the characters used here.
Whitespace == {" ", NL}

\* WORD arguments: two plain words and one with a leading blank.
WordArgs == {<<"a">>, <<"b">>, <<" ", "a">>}
\* TRANSLATIONS arguments (click's nargs=-1 tuple): none, one, two distinct,
\* the same one twice, one holding a line break, one holding a comma.
TransLists ==
  { <<>>,
    << <<"x">> >>,
    << <<"y">> >>,
    << <<"x">>, <<"y">> >>,
    << <<"y">>, <<"y">> >>,
    << <<"x", NL, "a">> >>,
    << <<"x", ",", "y">> >> }
\* DIRECTION arguments: the two valid ones and an invalid one.
Directions == {"enfr", "fren", "frfr"}

\* The two language directories under base_dir.
LangDirs == {"english", "french"}

\* ------------------------------------------------------- string helpers
Min(S) == CHOOSE x \in S : \A y \in S : x <= y
Max(S) == CHOOSE x \in S : \A y \in S : y <= x
Range(s) == {s[i] : i \in DOMAIN s}

\* str.split(c): the pieces of s between occurrences of character c.
split(s, c) ==
  LET cuts == {i \in 1..Len(s) : s[i] = c}
      n == Cardinality(cuts)
      Cut(k) == IF k = 0 THEN 0
                ELSE IF k = n + 1 THEN Len(s) + 1
                ELSE CHOOSE i \in cuts : Cardinality({j \in cuts : j <= i}) = k
  IN [k \in 1..(n + 1) |-> SubSeq(s, Cut(k - 1) + 1, Cut(k) - 1)]

\* str.strip(): s without its leading and trailing whitespace.
strip(s) ==
  LET keep == {i \in 1..Len(s) : s[i] \notin Whitespace}
  IN IF keep = {} THEN <<>> ELSE SubSeq(s, Min(keep), Max(keep))

\* A string the record format carries unchanged: no comma, no line break, no
\* leading or trailing whitespace.
Clean(str) == strip(str) = str /\ "," \notin Range(str) /\ NL \notin Range(str)

\* f.readlines(): the lines of a text, each keeping its line break.
readlines(text) ==
  LET ends == {i \in 1..Len(text) : text[i] = NL \/ i = Len(text)}
      n == Cardinality(ends)
      End(k) == IF k = 0 THEN 0
                ELSE CHOOSE i \in ends : Cardinality({j \in ends : j <= i}) = k
  IN [k \in 1..n |-> SubSeq(text, End(k - 1) + 1, End(k))]

\* f.writelines(lines): the lines written one after the other.
RECURSIVE writelines(_)
writelines(lines) ==
  IF lines = <<>> THEN <<>> ELSE Head(lines) \o writelines(Tail(lines))

\* sep.join(ss)
RECURSIVE join(_, _)
join(sep, ss) ==
  IF ss = <<>> THEN <<>>
  ELSE IF Len(ss) = 1 THEN ss[1]
  ELSE ss[1] \o sep \o join(sep, Tail(ss))

\* [p.strip() for p in line.split(',')]
parts(line) ==
  LET raw == split(line, ",") IN [k \in DOMAIN raw |-> strip(raw[k])]

\* record_line with the translations joined by a blank instead of ", ".
record_line_BlankSeparator(word, translations) ==
  word \o <<",", " ">> \o join(<<" ">>, translations) \o <<NL>>

\* f"{word}, {', '.join(translations)}\n"
record_line(word, translations) ==
  word \o <<",", " ">> \o join(<<",", " ">>, translations) \o <<NL>>

\* ------------------------------------------------------------ the files
\* A file that does not exist.
NoFile == [exists |-> FALSE, text |-> <<>>]
NoUsage == [exists |-> FALSE, rows |-> <<>>]

\* The two path functions with the test on the language lost.
get_translation_file_AlwaysFrench(from_lang) == "french"

get_increment_file_AlwaysFrench(lang) == "french"

\* get_translation_file / get_increment_file: the directory of a language.
get_translation_file(from_lang) ==
  IF from_lang = "en" THEN "english" ELSE "french"

get_increment_file(lang) ==
  IF lang = "en" THEN "english" ELSE "french"

\* ensure_directories: both language directories exist afterwards.
ensure_directories(d) == [l \in LangDirs |-> TRUE]

\* increment_word_usage that puts a new row before the existing ones.
increment_word_usage_Prepend(word, file) ==
  LET df == IF ~file.exists THEN <<>> ELSE file.rows
      known == \E i \in DOMAIN df : df[i].word = word
      out == IF known
             THEN [i \in DOMAIN df |->
                     IF df[i].word = word
                     THEN [df[i] EXCEPT !.count = @ + 1] ELSE df[i]]
             ELSE <<[word |-> word, count |-> 1]>> \o df
  IN [exists |-> TRUE, rows |-> out]

\* increment_word_usage that leaves the row of a known word as it is.
increment_word_usage_KnownUntouched(word, file) ==
  LET df == IF ~file.exists THEN <<>> ELSE file.rows
      known == \E i \in DOMAIN df : df[i].word = word
      out == IF known THEN df
             ELSE Append(df, [word |-> word, count |-> 1])
  IN [exists |-> TRUE, rows |-> out]

\* increment_word_usage on the usage file of one language.  The file is the
\* header word,count followed by one row per word; rows is that table.
increment_word_usage(word, file) ==
  LET df == IF ~file.exists THEN <<>> ELSE file.rows
      known == \E i \in DOMAIN df : df[i].word = word
      out == IF known
             THEN [i \in DOMAIN df |->
                     IF df[i].word = word
                     THEN [df[i] EXCEPT !.count = @ + 1] ELSE df[i]]
             ELSE Append(df, [word |-> word, count |-> 1])
  IN [exists |-> TRUE, rows |-> out]

\* word_exists: the first line whose trimmed first field is the word.
\* i is the zero-based line index, bare tells the line has a single field.
NotFound == [found |-> FALSE, i |-> -1, line |-> <<>>, bare |-> FALSE]

\* word_exists that takes a line with one translation for a bare one.
word_exists_BareOffByOne(word, file) ==
  IF ~file.exists THEN NotFound
  ELSE LET lines == readlines(file.text)
           hits == {i \in DOMAIN lines : parts(lines[i])[1] = word}
       IN IF hits = {} THEN NotFound
          ELSE [found |-> TRUE, i |-> Min(hits) - 1,
                line |-> lines[Min(hits)],
                bare |-> Len(parts(lines[Min(hits)])) <= 2]

word_exists(word, file) ==
  IF ~file.exists THEN NotFound
  ELSE LET lines == readlines(file.text)
           hits == {i \in DOMAIN lines : parts(lines[i])[1] = word}
       IN IF hits = {} THEN NotFound
          ELSE [found |-> TRUE, i |-> Min(hits) - 1,
                line |-> lines[Min(hits)],
                bare |-> Len(parts(lines[Min(hits)])) = 1]

\* update_translation that writes only the first translation.
update_translation_FirstOnly(word, translations, text) ==
  LET lines == readlines(text)
      hits == {i \in DOMAIN lines :
                 parts(lines[i])[1] = word /\ Len(parts(lines[i])) = 1}
  IN IF hits = {} THEN writelines(lines)
     ELSE writelines([lines EXCEPT
                        ![Min(hits)] = record_line(word, <<translations[1]>>)])

\* update_translation: the text after rewriting the first bare line of word.
update_translation(word, translations, text) ==
  LET lines == readlines(text)
      hits == {i \in DOMAIN lines :
                 parts(lines[i])[1] = word /\ Len(parts(lines[i])) = 1}
  IN IF hits = {} THEN writelines(lines)
     ELSE writelines([lines EXCEPT
                        ![Min(hits)] = record_line(word, translations)])

\* append_translation that writes the supplied translations in place of the
\* existing ones.
append_translation_Overwrite(word, translations, text) ==
  LET lines == readlines(text)
      hits == {i \in DOMAIN lines : parts(lines[i])[1] = word}
  IN IF hits = {} THEN [text |-> writelines(lines), new_count |-> 0]
     ELSE [text |-> writelines([lines EXCEPT
                      ![Min(hits)] = record_line(word, translations)]),
           new_count |-> Len(translations)]

\* append_translation without the membership test: every supplied translation
\* is appended.
append_translation_NoMembershipTest(word, translations, text) ==
  LET lines == readlines(text)
      hits == {i \in DOMAIN lines : parts(lines[i])[1] = word}
  IN IF hits = {} THEN [text |-> writelines(lines), new_count |-> 0]
     ELSE LET p == parts(lines[Min(hits)])
              existing_translations == SubSeq(p, 2, Len(p))
              all_translations == existing_translations \o translations
          IN [text |-> writelines([lines EXCEPT
                         ![Min(hits)] = record_line(word, all_translations)]),
              new_count |-> Len(translations)]

\* append_translation without the break: every line of the word is merged.
append_translation_NoBreak(word, translations, text) ==
  LET lines == readlines(text)
      hits == {i \in DOMAIN lines : parts(lines[i])[1] = word}
      Fresh(i) == SelectSeq(translations,
                    LAMBDA t : t \notin Range(SubSeq(parts(lines[i]), 2,
                                                     Len(parts(lines[i])))))
      Merged(i) == record_line(word,
                     SubSeq(parts(lines[i]), 2, Len(parts(lines[i]))) \o Fresh(i))
  IN IF hits = {} THEN [text |-> writelines(lines), new_count |-> 0]
     ELSE [text |-> writelines([i \in DOMAIN lines |->
                      IF i \in hits THEN Merged(i) ELSE lines[i]]),
           new_count |-> Len(Fresh(Min(hits)))]

\* append_translation: the text after merging into the first line of word,
\* and the number of translations appended.
append_translation(word, translations, text) ==
  LET lines == readlines(text)
      hits == {i \in DOMAIN lines : parts(lines[i])[1] = word}
  IN IF hits = {} THEN [text |-> writelines(lines), new_count |-> 0]
     ELSE LET p == parts(lines[Min(hits)])
              existing_translations == SubSeq(p, 2, Len(p))
              fresh == SelectSeq(translations,
                         LAMBDA t : t \notin Range(existing_translations))
              all_translations == existing_translations \o fresh
          IN [text |-> writelines([lines EXCEPT
                         ![Min(hits)] = record_line(word, all_translations)]),
              new_count |-> Len(fresh)]

\* add_translation that counts a usage on every path.
add_translation_IncrementAlways(word, translations, from_lang, d, st, us) ==
  LET dir == get_translation_file(from_lang)
      d1 == IF st[dir].exists THEN d ELSE [d EXCEPT ![dir] = TRUE]
      file == IF st[dir].exists THEN st[dir]
              ELSE [exists |-> TRUE, text |-> <<>>]
      info == word_exists(word, file)
      counted == [us EXCEPT ![get_increment_file(from_lang)] =
                    increment_word_usage(word, @)]
  IN IF ~info.found
     THEN [dirs |-> d1,
           store |-> [st EXCEPT ![dir] =
                        [exists |-> TRUE,
                         text |-> file.text \o record_line(word, translations)]],
           usage |-> counted,
           result |-> <<"added", 0>>]
     ELSE IF info.bare
     THEN [dirs |-> d1,
           store |-> [st EXCEPT ![dir] =
                        [exists |-> TRUE,
                         text |-> update_translation(word, translations, file.text)]],
           usage |-> counted,
           result |-> <<"updated", 0>>]
     ELSE LET r == append_translation(word, translations, file.text)
          IN [dirs |-> d1,
              store |-> [st EXCEPT ![dir] = [exists |-> TRUE, text |-> r.text]],
              usage |-> counted,
              result |-> <<"appended", r.new_count>>]

\* add_translation: the disk after the call and its return value.
add_translation(word, translations, from_lang, d, st, us) ==
  LET dir == get_translation_file(from_lang)
      d1 == IF st[dir].exists THEN d ELSE [d EXCEPT ![dir] = TRUE]
      file == IF st[dir].exists THEN st[dir]
              ELSE [exists |-> TRUE, text |-> <<>>]
      info == word_exists(word, file)
  IN IF ~info.found
     THEN [dirs |-> d1,
           store |-> [st EXCEPT ![dir] =
                        [exists |-> TRUE,
                         text |-> file.text \o record_line(word, translations)]],
           usage |-> [us EXCEPT ![get_increment_file(from_lang)] =
                        increment_word_usage(word, @)],
           result |-> <<"added", 0>>]
     ELSE IF info.bare
     THEN [dirs |-> d1,
           store |-> [st EXCEPT ![dir] =
                        [exists |-> TRUE,
                         text |-> update_translation(word, translations, file.text)]],
           usage |-> us,
           result |-> <<"updated", 0>>]
     ELSE LET r == append_translation(word, translations, file.text)
          IN [dirs |-> d1,
              store |-> [st EXCEPT ![dir] = [exists |-> TRUE, text |-> r.text]],
              usage |-> us,
              result |-> <<"appended", r.new_count>>]

\* ------------------------------------------------------------ the state
VARIABLES
  dirs,        \* dirs[l]: the directory of language l exists
  store,       \* store[l]: the translation store kept in directory l
  usage,       \* usage[l]: the usage file kept in directory l
  calls,       \* number of invocations so far
  last,        \* the last invocation: arguments, message, return value
  pre,         \* the disk as it was before the last invocation
  addedCalls,  \* addedCalls[<<l, w>>]: invocations that returned added
  killed,      \* <<l, w>>: an invocation adding w to l was killed before
               \* its usage count was written
  unclean      \* some add_translation call got an argument with a comma, a
               \* line break or outer whitespace

vars == <<dirs, store, usage, calls, last, pre, addedCalls, killed, unclean>>

Disk == [dirs |-> dirs, store |-> store, usage |-> usage]

NoCall == [branch |-> "none", direction |-> "", word |-> <<>>,
           translations |-> <<>>, echo |-> "", result |-> <<"", 0>>]

\* A fresh installation: the language directories may or may not have been
\* created yet, no store and no usage file exists.
Init ==
  /\ \E b \in BOOLEAN : dirs = [l \in LangDirs |-> b]
  /\ store = [l \in LangDirs |-> NoFile]
  /\ usage = [l \in LangDirs |-> NoUsage]
  /\ calls = 0
  /\ last = NoCall
  /\ pre = [dirs |-> [l \in LangDirs |-> FALSE],
            store |-> [l \in LangDirs |-> NoFile],
            usage |-> [l \in LangDirs |-> NoUsage]]
  /\ addedCalls = [k \in LangDirs \X WordArgs |-> 0]
  /\ killed = {}
  /\ unclean = FALSE

\* trans with the manager constructed before the translations are counted.
TransNoTranslations_ManagerFirst(direction, word, translations) ==
  /\ calls < MaxCalls
  /\ translations = <<>>
  /\ calls' = calls + 1
  /\ pre' = Disk
  /\ dirs' = ensure_directories(dirs)
  /\ last' = [branch |-> "no_translations", direction |-> direction,
              word |-> word, translations |-> translations,
              echo |-> "Erreur: Veuillez fournir au moins une traduction",
              result |-> <<"", 0>>]
  /\ UNCHANGED <<store, usage, addedCalls, killed, unclean>>

\* trans, lines 135-137: no translation given.
TransNoTranslations(direction, word, translations) ==
  /\ calls < MaxCalls
  /\ translations = <<>>
  /\ calls' = calls + 1
  /\ pre' = Disk
  /\ last' = [branch |-> "no_translations", direction |-> direction,
              word |-> word, translations |-> translations,
              echo |-> "Erreur: Veuillez fournir au moins une traduction",
              result |-> <<"", 0>>]
  /\ UNCHANGED <<dirs, store, usage, addedCalls, killed, unclean>>

\* trans, lines 139-147: the manager is constructed, then the direction is
\* rejected.
TransInvalidDirection(direction, word, translations) ==
  /\ calls < MaxCalls
  /\ translations # <<>>
  /\ direction \notin {"enfr", "fren"}
  /\ calls' = calls + 1
  /\ pre' = Disk
  /\ dirs' = ensure_directories(dirs)
  /\ last' = [branch |-> "invalid_direction", direction |-> direction,
              word |-> word, translations |-> translations,
              echo |-> "Erreur: Direction invalide",
              result |-> <<"", 0>>]
  /\ UNCHANGED <<store, usage, addedCalls, killed, unclean>>

\* trans, lines 139-158: the manager is constructed and add_translation runs.
TransAdd(direction, word, translations) ==
  /\ calls < MaxCalls
  /\ translations # <<>>
  /\ direction \in {"enfr", "fren"}
  /\ LET from_lang == IF direction = "enfr" THEN "en" ELSE "fr"
         r == add_translation(word, translations, from_lang,
                              ensure_directories(dirs), store, usage)
     IN /\ dirs' = r.dirs
        /\ store' = r.store
        /\ usage' = r.usage
        /\ last' = [branch |-> "add", direction |-> direction,
                    word |-> word, translations |-> translations,
                    echo |-> r.result[1], result |-> r.result]
        /\ addedCalls' =
             IF r.result[1] = "added"
             THEN [addedCalls EXCEPT
                     ![<<get_increment_file(from_lang), word>>] = @ + 1]
             ELSE addedCalls
  /\ calls' = calls + 1
  /\ pre' = Disk
  /\ unclean' = (\/ unclean
                 \/ ~Clean(word)
                 \/ \E t \in Range(translations) : ~Clean(t))
  /\ UNCHANGED killed

\* trans on the added path, the process killed after the record is written
\* (line 112) and before the usage file is rewritten (line 46).  With header
\* the kill comes after line 35 has created a usage file that holds only
\* its header.
TransAddKilled(direction, word, translations, header) ==
  /\ calls < MaxCalls
  /\ translations # <<>>
  /\ direction \in {"enfr", "fren"}
  /\ LET from_lang == IF direction = "enfr" THEN "en" ELSE "fr"
         inc == get_increment_file(from_lang)
         r == add_translation(word, translations, from_lang,
                              ensure_directories(dirs), store, usage)
     IN /\ r.result[1] = "added"
        /\ header => ~usage[inc].exists
        /\ dirs' = r.dirs
        /\ store' = r.store
        /\ usage' = IF header
                    THEN [usage EXCEPT ![inc] = [exists |-> TRUE, rows |-> <<>>]]
                    ELSE usage
        /\ killed' = killed \cup {<<inc, word>>}
  /\ last' = [branch |-> "killed", direction |-> direction,
              word |-> word, translations |-> translations,
              echo |-> "", result |-> <<"", 0>>]
  /\ calls' = calls + 1
  /\ pre' = Disk
  /\ unclean' = (\/ unclean
                 \/ ~Clean(word)
                 \/ \E t \in Range(translations) : ~Clean(t))
  /\ UNCHANGED addedCalls

Next ==
  \E direction \in Directions, word \in WordArgs, translations \in TransLists :
    \/ TransNoTranslations(direction, word, translations)
    \/ TransInvalidDirection(direction, word, translations)
    \/ TransAdd(direction, word, translations)

Spec == Init /\ [][Next]_vars

\* The arguments explored where invocations may be killed: a plain word and
\* one with a leading blank; no translation, or one of two.
KillWordArgs == {<<"a">>, <<" ", "a">>}
KillTransLists == {<<>>, << <<"x">> >>, << <<"y">> >>}

\* The invocations, each of which may also be killed on the added path.
NextKill ==
  \E direction \in Directions, word \in KillWordArgs,
     translations \in KillTransLists :
    \/ TransNoTranslations(direction, word, translations)
    \/ TransInvalidDirection(direction, word, translations)
    \/ TransAdd(direction, word, translations)
    \/ \E header \in BOOLEAN :
         TransAddKilled(direction, word, translations, header)

SpecKill == Init /\ [][NextKill]_vars

\* ------------------------------------------------------ claim vocabulary
\* The last invocation reached add_translation.
Called == last.branch = "add"
Outcome == last.result[1]
\* The directory whose store the last invocation's direction selects.
LastDir == IF last.direction = "enfr" THEN "english" ELSE "french"
OtherDir == IF last.direction = "enfr" THEN "french" ELSE "english"
PreText == pre.store[LastDir].text
PostText == store[LastDir].text
PreLines == readlines(PreText)
PostLines == readlines(PostText)
\* Indexes of the lines whose trimmed first field is the word.
Matches(word, lines) == {i \in DOMAIN lines : parts(lines[i])[1] = word}
PreMatches == Matches(last.word, PreLines)
\* The fields after the first one.
TranslationsOf(line) == SubSeq(parts(line), 2, Len(parts(line)))
\* The elements of s at the indexes idx, in order.
Pick(s, idx) ==
  [k \in 1..Cardinality(idx) |->
     s[CHOOSE i \in idx : Cardinality({j \in idx : j <= i}) = k]]
NoLineBreak(str) == NL \notin Range(str)
ErrorMessages == {"Erreur: Veuillez fournir au moins une traduction",
                  "Erreur: Direction invalide"}
\* The count the usage file of directory l shows for word w, 0 without a row.
UsageCount(l, w) ==
  LET rows == usage[l].rows
      hits == {i \in DOMAIN rows : rows[i].word = w}
  IN IF hits = {} THEN 0 ELSE rows[Min(hits)].count

\* ----------------------------------------------------------------- C1
\* C1 (as claimed): in every store each word is the first field of at most
\* one record, and no record lists the same translation twice.
C1_UniqueWordsAndTranslations ==
  \A l \in LangDirs :
    LET lines == readlines(store[l].text)
    IN /\ \A i, j \in DOMAIN lines :
            parts(lines[i])[1] = parts(lines[j])[1] => i = j
       /\ \A i \in DOMAIN lines :
            \A m, n \in DOMAIN TranslationsOf(lines[i]) :
              TranslationsOf(lines[i])[m] = TranslationsOf(lines[i])[n] => m = n

\* ----------------------------------------------------------------- C2
\* C2 (as claimed): when the word's record has translations E, the call
\* rewrites it as the word, E, then each supplied translation that is not in
\* E once, and returns appended_N with N the number of those translations.
C2_MergeAppendsEachNewOnce ==
  (Called /\ PreMatches # {} /\ Len(parts(PreLines[Min(PreMatches)])) > 1) =>
    LET i == Min(PreMatches)
        E == TranslationsOf(PreLines[i])
        T == last.translations
        new == Pick(T, {k \in DOMAIN T :
                          /\ T[k] \notin Range(E)
                          /\ \A h \in 1..(k - 1) : T[h] # T[k]})
    IN /\ PostText = writelines([PreLines EXCEPT
                                   ![i] = record_line(last.word, E \o new)])
       /\ last.result = <<"appended", Len(new)>>

C4_InvalidDirectionTouchesNothing ==
  (calls > 0 /\ last.direction \notin {"enfr", "fren"}) =>
    /\ last.echo \in ErrorMessages
    /\ Disk = pre

\* ----------------------------------------------------------------- C5
\* The word has a record and every supplied translation is already in it.
C5_Case ==
  /\ Called
  /\ PreMatches # {}
  /\ Range(last.translations) \subseteq
       Range(TranslationsOf(PreLines[Min(PreMatches)]))

\* C5 (as claimed): re-adding translations that are all present returns
\* appended_0 and leaves the stores and the usage files exactly as they were.
C5_ReAddLeavesStoreIdentical ==
  C5_Case => /\ last.result = <<"appended", 0>>
             /\ store = pre.store
             /\ usage = pre.usage

\* C5 (amended): re-adding translations that are all present returns
\* appended_0, leaves the usage files and every other line as they were and
\* rewrites the word's line from its trimmed fields as "w, e1, ..., en": the
\* record keeps its fields, and the store is unchanged when the line already
\* had that form.
C5_ReAddKeepsFields ==
  C5_Case =>
    LET i == Min(PreMatches)
        E == TranslationsOf(PreLines[i])
    IN /\ last.result = <<"appended", 0>>
       /\ usage = pre.usage
       /\ store[OtherDir] = pre.store[OtherDir]
       /\ PostText = writelines([PreLines EXCEPT
                                   ![i] = record_line(last.word, E)])
       /\ Len(PostLines) = Len(PreLines)
       /\ parts(PostLines[i]) = parts(PreLines[i])
       /\ PreLines[i] = record_line(last.word, E) => store = pre.store

\* The same word and translation were given twice; the second call changed
\* nothing.
C5_Witness ==
  /\ C5_Case
  /\ PreLines[Min(PreMatches)] =
       record_line(last.word, TranslationsOf(PreLines[Min(PreMatches)]))
  /\ store = pre.store

\* ----------------------------------------------------------------- C6
\* The word is not the first field of any record of the store.
C6_Case == Called /\ PreMatches = {}

\* What C6 says of the record a call has added: one more line after the old
\* ones, found by a lookup of the word, with the supplied translations.
C6_RoundTrip ==
  LET info == word_exists(last.word, store[LastDir])
  IN /\ Len(PostLines) = Len(PreLines) + 1
     /\ SubSeq(PostLines, 1, Len(PreLines)) = PreLines
     /\ info.found
     /\ info.i = Len(PreLines)
     /\ TranslationsOf(info.line) = last.translations

\* C6 (as claimed): adding a word the store does not hold returns added,
\* creates the store, appends exactly one record, and a lookup of the word
\* then finds that record with exactly the supplied translations.
C6_AddThenLookup ==
  C6_Case => /\ Outcome = "added"
             /\ store[LastDir].exists
             /\ C6_RoundTrip

\* C6 (amended): adding a word the store does not hold returns added, creates
\* the store and appends the text "w, t1, ..., tn" and a line break; when the
\* word and the translations hold no comma, no line break and no leading or
\* trailing whitespace, that text is exactly one record and a lookup of the
\* word finds it with exactly the supplied translations.
C6_AddThenLookupClean ==
  C6_Case =>
    /\ Outcome = "added"
    /\ store[LastDir].exists
    /\ PostText = PreText \o record_line(last.word, last.translations)
    /\ (Clean(last.word) /\ \A t \in Range(last.translations) : Clean(t))
         => C6_RoundTrip

\* A clean word was added with two translations to a store that already held
\* a record.
C6_Witness ==
  /\ C6_Case
  /\ Clean(last.word) /\ \A t \in Range(last.translations) : Clean(t)
  /\ Len(last.translations) = 2
  /\ Len(PreLines) > 0

C7_Case ==
  /\ Called
  /\ PreMatches # {}
  /\ Len(parts(PreLines[Min(PreMatches)])) = 1

C8_NoTranslationsTouchesNothing ==
  (calls > 0 /\ last.translations = <<>>) =>
    /\ last.echo \in ErrorMessages
    /\ Disk = pre

\* An invocation without translations ran where no directory exists yet.
C8_Witness ==
  /\ calls > 0
  /\ last.translations = <<>>
  /\ \A l \in LangDirs : ~dirs[l]

\* ----------------------------------------------------------------- C9
\* What C9 says of the lines of the store the call used.
C9_Frame ==
  /\ store[OtherDir] = pre.store[OtherDir]
  /\ IF Outcome = "added"
     THEN /\ Len(PostLines) = Len(PreLines) + 1
          /\ SubSeq(PostLines, 1, Len(PreLines)) = PreLines
     ELSE /\ Len(PostLines) = Len(PreLines)
          /\ \A j \in DOMAIN PreLines :
               j # Min(PreMatches) => PostLines[j] = PreLines[j]

\* C9 (as claimed): a call changes at most one record: updated and appended
\* keep the number of lines and every line but the word's, added keeps every
\* line and puts exactly one after them.
C9_OneRecordChanges == Called => C9_Frame

\* C9 (amended): the same, for a call whose word and translations hold no
\* line break.
C9_OneRecordChangesNoLineBreak ==
  (/\ Called
   /\ NoLineBreak(last.word)
   /\ \A t \in Range(last.translations) : NoLineBreak(t)) => C9_Frame

\* A record was rewritten in a store that holds other records.
C9_Witness ==
  /\ Called
  /\ Outcome \in {"updated", "appended"}
  /\ NoLineBreak(last.word)
  /\ \A t \in Range(last.translations) : NoLineBreak(t)
  /\ Len(PreLines) > 1
  /\ PostText # PreText

\* ---------------------------------------------------------------- C10
\* C10: the first line whose trimmed first field is the word decides the
\* outcome (none: added; one field: updated; more: appended_N), and the
\* text the call writes differs from the old one only in that line, which
\* then starts with the word.
C10_FirstMatchDecides ==
  Called =>
    /\ Outcome = "added" <=> PreMatches = {}
    /\ Outcome = "updated" <=>
         (PreMatches # {} /\ Len(parts(PreLines[Min(PreMatches)])) = 1)
    /\ Outcome = "appended" <=>
         (PreMatches # {} /\ Len(parts(PreLines[Min(PreMatches)])) > 1)
    /\ PreMatches # {} =>
         LET i == Min(PreMatches)
             before == writelines(SubSeq(PreLines, 1, i - 1))
             after == writelines(SubSeq(PreLines, i + 1, Len(PreLines)))
             head == last.word \o <<",", " ">>
             n == Len(PostText)
         IN /\ n >= Len(before) + Len(head) + Len(after)
            /\ SubSeq(PostText, 1, Len(before) + Len(head)) = before \o head
            /\ SubSeq(PostText, n - Len(after) + 1, n) = after

\* The word is the first field of two lines and the earlier one was
\* rewritten.
C10_Witness ==
  /\ Called
  /\ Cardinality(PreMatches) >= 2
  /\ PostText # PreText

C12_KilledAddDivergesForGood ==
  /\ \A k \in killed :
       /\ Matches(k[2], readlines(store[k[1]].text)) # {}
       /\ UsageCount(k[1], k[2]) = 0
  /\ (Called /\ <<LastDir, last.word>> \in killed) =>
       Outcome \in {"updated", "appended"}

\* C12 (amended): the same, for a word that holds no comma, no line break
\* and no leading or trailing whitespace.
C12_KilledCleanAddDivergesForGood ==
  /\ \A k \in killed :
       Clean(k[2]) =>
         /\ Matches(k[2], readlines(store[k[1]].text)) # {}
         /\ UsageCount(k[1], k[2]) = 0
  /\ (Called /\ <<LastDir, last.word>> \in killed /\ Clean(last.word)) =>
       /\ Outcome \in {"updated", "appended"}
       /\ usage = pre.usage

\* A call for a word whose adding had been killed appended a translation.
C12_Witness ==
  /\ Called
  /\ <<LastDir, last.word>> \in killed
  /\ Clean(last.word)
  /\ last.result = <<"appended", 1>>

\* ---------------------------------------------------------------- C13
\* C13: a call with direction enfr writes the store and the usage file of
\* english only, a call with direction fren those of french only; the
\* store and the usage file of the other language stay as they were.
C13_OnlyOwnLanguageFiles ==
  Called =>
    LET own == IF last.direction = "enfr" THEN "english" ELSE "french"
        other == IF last.direction = "enfr" THEN "french" ELSE "english"
    IN /\ store[other] = pre.store[other]
       /\ usage[other] = pre.usage[other]
       /\ store[own].exists
       /\ Outcome = "added" =>
            /\ store[own] # pre.store[own]
            /\ usage[own] # pre.usage[own]

\* A word was added in one language while the other language already had a
\* store and a usage file.
C13_Witness ==
  /\ Called /\ Outcome = "added"
  /\ pre.store[OtherDir].exists
  /\ pre.usage[OtherDir].exists

\* ---------------------------------------------------------------- C14
\* What C14 says of the stores and usage files: the words with a usage row
\* are the words with a record, language by language, and every count is 1.
C14_RowsMatchRecords ==
  \A l \in LangDirs :
    LET lines == readlines(store[l].text)
        rows == usage[l].rows
    IN /\ {rows[i].word : i \in DOMAIN rows} =
            {parts(lines[i])[1] : i \in DOMAIN lines}
       /\ \A i \in DOMAIN rows : rows[i].count = 1

Extends(old, new) ==
  /\ Len(parts(old)) <= Len(parts(new))
  /\ SubSeq(parts(new), 1, Len(parts(old))) = parts(old)

\* C15: an invocation loses nothing: every line the store held is still
\* there, in the same order, with the same word and with its translations
\* at the same positions, possibly followed by new ones.
C15_NothingIsLost ==
  calls > 0 =>
    \A l \in LangDirs :
      LET old == readlines(pre.store[l].text)
          new == readlines(store[l].text)
          d == Len(new) - Len(old)
      IN /\ d >= 0
         /\ \E i \in 0..Len(old) :
              \A j \in DOMAIN old :
                Extends(old[j], new[IF j <= i THEN j ELSE j + d])

\* A record with a translation got a second one, in a store with other
\* lines.
C15_Witness ==
  /\ Called /\ Outcome = "appended"
  /\ Len(PreLines) > 1
  /\ Len(parts(PreLines[Min(PreMatches)])) = 2
  /\ Len(parts(PostLines[Min(PreMatches)])) = 3
====
